---- MODULE Spec2Model ----
(***************************************************************************)
(* ClusterStateController (cpp/log/cluster_state_controller-inl.h).        *)
(*                                                                         *)
(* Every handler of the controller takes mutex_ on entry and keeps it to   *)
(* its end, so a handler is one atomic action.  The publisher thread       *)
(* (ClusterServingSTHUpdater) releases the mutex before it talks to the    *)
(* election and the store, so it is split at those points.                 *)
(*                                                                         *)
(* Tree sizes are int64 in the code and one of them is narrowed to `int`   *)
(* (line 213).  Tree sizes are written here in blocks of 2^16 leaves, so   *)
(* that 2^31 and 2^32 leaves are the representable numbers 32768 and       *)
(* 65536; narrowing a multiple of 2^16 to 32 bits is exact in blocks.      *)
(***************************************************************************)
EXTENDS Integers, Sequences, FiniteSets, TLC

\* ------------------------------------------------------------------------
\* Bounds of the model
\* ------------------------------------------------------------------------
NumNodes == 2
MaxTreeSize == 2
MaxTimestamp == 1
MaxDen == 2

\* 2^32 leaves, in blocks of 2^16: the width of `int current_tree_size`.
IntWrap == 65536

Nodes == 1..NumNodes

\* A null unique_ptr / an unset optional field, and a key not in the map.
NoSTH == [null |-> TRUE]
Absent == [absent |-> TRUE]
NoNodeState == [never_set |-> TRUE]

\* ct::SignedTreeHead, reduced to the two fields the controller reads.
STH(size, ts) == [tree_size |-> size, timestamp |-> ts]

\* A default-constructed ct::SignedTreeHead: what std::map::operator[]
\* inserts at line 201; protobuf reads unset integer fields as 0.
DefaultSTH == STH(0, 0)

\* static narrowing int64 -> int at line 213 (two's complement wrap).
ToInt(x) ==
  LET m == x % IntWrap
  IN IF m >= IntWrap \div 2 THEN m - IntWrap ELSE m

\* A std::map as a function on its key set; m[k] with insertion of def.
MapGet(m, k, def) == IF k \in DOMAIN m THEN m[k] ELSE def
MapPut(m, k, v) == [x \in DOMAIN m \cup {k} |-> IF x = k THEN v ELSE m[x]]

SetMax(S) == CHOOSE x \in S : \A y \in S : y <= x

\* ------------------------------------------------------------------------
\* State
\* ------------------------------------------------------------------------
VARIABLES
  all_node_states_,        \* node id -> ClusterNodeState, or Absent
  cluster_config_,         \* ct::ClusterConfig
  actual_serving_sth_,     \* unique_ptr<SignedTreeHead>: NoSTH when null
  calculated_serving_sth_, \* unique_ptr<SignedTreeHead>: NoSTH when null
  local_node_state_,       \* ct::ClusterNodeState of this node
  exiting_,
  update_required_,
  election_call,           \* the last call made on election_: none/start/stop
  is_master,               \* what election_->IsMaster() answers now
  store_node_state,        \* last argument of store_->SetClusterNodeState
  push_calls,              \* outward calls of the latest PushLocalNodeState
  store_serving_sth,       \* last argument of store_->SetServingSTH
  updater_pc,              \* position of ClusterServingSTHUpdater
  local_sth,               \* its stack copy of the calculated STH
  saw_master,              \* what its IsMaster() call of line 300 returned
  dtor_pc,                 \* position of ~ClusterStateController
  task_state,              \* the three watch tasks
  fatal,                   \* line of the CHECK that ended the process, or 0
  can_serve_at,            \* size logged at line 231 by the last calculation
  ever_calculated,         \* line 233 has run at least once
  late_call                \* store or election was called after ~CSC returned

vars ==
  <<all_node_states_, cluster_config_, actual_serving_sth_,
    calculated_serving_sth_, local_node_state_, exiting_, update_required_,
    election_call, is_master, store_node_state, push_calls, store_serving_sth,
    updater_pc, local_sth, saw_master, dtor_pc, task_state, fatal,
    can_serve_at, ever_calculated, late_call>>

Watches == {"config", "node_states", "serving_sth"}

\* Lowest-terms fractions in [0, 1] with denominator up to MaxDen.
Fractions ==
  {f \in [num : 0..MaxDen, den : 1..MaxDen] :
     /\ f.num <= f.den
     /\ \A g \in 2..MaxDen : ~(f.num % g = 0 /\ f.den % g = 0)}

Config(msn, msf) ==
  [minimum_serving_nodes |-> msn, minimum_serving_fraction |-> msf]

\* A default-constructed ct::ClusterConfig (the member before any update).
DefaultConfig == Config(0, [num |-> 0, den |-> 1])

\* A default-constructed ct::ClusterNodeState (local_node_state_ at start).
DefaultNodeState ==
  [newest_sth |-> NoSTH, contiguous_tree_size |-> 0,
   hostname |-> "", log_port |-> 0]

\* A peer's ClusterNodeState, reduced to the field the calculation reads.
PeerState(sth) == [newest_sth |-> sth]

\* ------------------------------------------------------------------------
\* CalculateServingSTH, lines 192-205: the two maps, built in key order of
\* all_node_states_ (a std::map keyed by node id).
\* ------------------------------------------------------------------------
RECURSIVE BuildMaps(_, _, _)
BuildMaps(states, n, acc) ==
  IF n \notin DOMAIN states THEN acc
  ELSE IF states[n] = Absent \/ states[n].newest_sth = NoSTH
  THEN BuildMaps(states, n + 1, acc)
  ELSE
    LET sth == states[n].newest_sth
        tree_size == sth.tree_size
        num == MapPut(acc.num_nodes_by_sth_size, tree_size,
                      MapGet(acc.num_nodes_by_sth_size, tree_size, 0) + 1)
        cur == MapGet(acc.sth_by_size, tree_size, DefaultSTH)
        best == IF sth.timestamp > cur.timestamp THEN sth ELSE cur
    IN IF ~(0 <= tree_size)
       THEN [acc EXCEPT !.check_failed = 197]
       ELSE BuildMaps(states, n + 1,
                      [sth_by_size |-> MapPut(acc.sth_by_size, tree_size, best),
                       num_nodes_by_sth_size |-> num,
                       check_failed |-> 0])

EmptyMaps ==
  [sth_by_size |-> << >>, num_nodes_by_sth_size |-> << >>,
   check_failed |-> 0]

\* all_node_states_.size()
NumStates(states) == Cardinality({n \in DOMAIN states : states[n] # Absent})

\* CanServe without the minimum_serving_nodes test.
CanServe_FractionOnly(seen, total, config) ==
  seen * config.minimum_serving_fraction.den
    >= config.minimum_serving_fraction.num * total

\* The test of lines 229-230.  serving_fraction is the double
\* num_nodes_seen / size(); the configured fraction is num/den, and for
\* the small integers of the model the double comparison agrees with the
\* exact one.
CanServe(seen, total, config) ==
  /\ seen * config.minimum_serving_fraction.den
       >= config.minimum_serving_fraction.num * total
  /\ seen >= config.minimum_serving_nodes

\* The reverse sweep of lines 220-242: keys are the sizes not yet visited.
RECURSIVE Sweep(_, _, _, _, _, _)
Sweep(keys, maps, seen, current_tree_size, total, config) ==
  IF keys = {} THEN [found |-> FALSE]
  ELSE
    LET size == SetMax(keys)
        num_nodes_seen == seen + maps.num_nodes_by_sth_size[size]
    IN IF ~(size >= current_tree_size) THEN [found |-> FALSE]
       ELSE IF CanServe(num_nodes_seen, total, config)
       THEN [found |-> TRUE, size |-> size, sth |-> maps.sth_by_size[size],
             num_nodes_seen |-> num_nodes_seen]
       ELSE Sweep(keys \ {size}, maps, num_nodes_seen, current_tree_size,
                  total, config)

\* Lines 212-215: the floor of the sweep, narrowed to int.
CurrentTreeSize(calculated) ==
  IF calculated # NoSTH THEN ToInt(calculated.tree_size) ELSE 0

\* The whole of CalculateServingSTH as a function of what it reads:
\* check_failed is the line of the CHECK that aborts the process, or 0
\* with the outcome of the sweep.
Calculate(states, config, calculated) ==
  LET maps == BuildMaps(states, 1, EmptyMaps)
      current_tree_size == CurrentTreeSize(calculated)
  IN IF maps.check_failed # 0
     THEN [check_failed |-> 197, found |-> FALSE]
     ELSE IF ~(0 <= current_tree_size)
     THEN [check_failed |-> 215, found |-> FALSE]
     ELSE [check_failed |-> 0] @@
          Sweep(DOMAIN maps.num_nodes_by_sth_size, maps, 0,
                current_tree_size, NumStates(states), config)

\* ------------------------------------------------------------------------
\* Handlers.  A failed CHECK ends the process: the model then stops, with
\* the state as it was when the handler was entered.
\* ------------------------------------------------------------------------
NoSize == -1

allButFatal ==
  <<all_node_states_, cluster_config_, actual_serving_sth_,
    calculated_serving_sth_, local_node_state_, exiting_, update_required_,
    election_call, is_master, store_node_state, push_calls, store_serving_sth,
    updater_pc, local_sth, saw_master, dtor_pc, task_state,
    can_serve_at, ever_calculated, late_call>>

CheckFailed(line) == fatal' = line /\ UNCHANGED allButFatal

\* A call into store_ or election_ is being made by this step.
CallsOut == late_call' = (late_call \/ dtor_pc = "returned")

\* CalculateServingSTH dropping the calculated STH when quorum is lost.
CalculateServingSTH_ClearsOnNoQuorum(r) ==
  IF r.found
  THEN /\ calculated_serving_sth_' = r.sth
       /\ update_required_' = (update_required_ \/ is_master)
       /\ can_serve_at' = r.size
       /\ ever_calculated' = TRUE
       /\ CallsOut
  ELSE /\ can_serve_at' = NoSize
       /\ calculated_serving_sth_' = NoSTH
       /\ UNCHANGED <<update_required_, ever_calculated, late_call>>

\* A recomputation that signals the publisher without asking the election.
CalculateServingSTH_SignalsWhenNotMaster(r) ==
  IF r.found
  THEN /\ calculated_serving_sth_' = r.sth
       /\ update_required_' = TRUE
       /\ can_serve_at' = r.size
       /\ ever_calculated' = TRUE
       /\ CallsOut
  ELSE /\ can_serve_at' = NoSize
       /\ UNCHANGED <<calculated_serving_sth_, update_required_,
                      ever_calculated, late_call>>

\* A recomputation that signals the publisher on a master whether or not
\* it found a size to serve.
CalculateServingSTH_SignalsWithoutResult(r) ==
  IF r.found
  THEN /\ calculated_serving_sth_' = r.sth
       /\ update_required_' = (update_required_ \/ is_master)
       /\ can_serve_at' = r.size
       /\ ever_calculated' = TRUE
       /\ CallsOut
  ELSE /\ can_serve_at' = NoSize
       /\ update_required_' = (update_required_ \/ is_master)
       /\ CallsOut
       /\ UNCHANGED <<calculated_serving_sth_, ever_calculated>>

\* A recomputation that signals the publisher only when the STH it
\* assigns differs from the one it replaces.
CalculateServingSTH_SignalsOnlyOnChange(r) ==
  IF r.found
  THEN /\ calculated_serving_sth_' = r.sth
       /\ update_required_' =
            (update_required_
               \/ (is_master /\ r.sth # calculated_serving_sth_))
       /\ can_serve_at' = r.size
       /\ ever_calculated' = TRUE
       /\ CallsOut
  ELSE /\ can_serve_at' = NoSize
       /\ UNCHANGED <<calculated_serving_sth_, update_required_,
                      ever_calculated, late_call>>

\* Lines 233-240 (r.found) and line 245 (otherwise), given the outcome r
\* of the sweep.
CalculateServingSTH(r) ==
  IF r.found
  THEN /\ calculated_serving_sth_' = r.sth
       /\ update_required_' = (update_required_ \/ is_master)
       /\ can_serve_at' = r.size
       /\ ever_calculated' = TRUE
       /\ CallsOut
  ELSE /\ can_serve_at' = NoSize
       /\ UNCHANGED <<calculated_serving_sth_, update_required_,
                      ever_calculated, late_call>>

\* The loop of lines 133-140 over the batch, from its i-th update on.
RECURSIVE ApplyUpdates(_, _, _)
ApplyUpdates(states, updates, i) ==
  IF i > Len(updates) THEN [states |-> states, check_failed |-> 0]
  ELSE
    LET update == updates[i]
    IN IF update.exists
       THEN ApplyUpdates([states EXCEPT ![update.node_id] = update.entry],
                         updates, i + 1)
       ELSE IF states[update.node_id] = Absent
       THEN [states |-> states, check_failed |-> 138]
       ELSE ApplyUpdates([states EXCEPT ![update.node_id] = Absent],
                         updates, i + 1)

OnClusterStateUpdated(updates) ==
  /\ fatal = 0
  /\ LET a == ApplyUpdates(all_node_states_, updates, 1)
         r == Calculate(a.states, cluster_config_, calculated_serving_sth_)
     IN IF a.check_failed # 0
        THEN CheckFailed(a.check_failed)
        ELSE IF r.check_failed # 0
        THEN CheckFailed(r.check_failed)
        ELSE /\ all_node_states_' = a.states
             /\ CalculateServingSTH(r)
             /\ UNCHANGED <<cluster_config_, actual_serving_sth_,
                            local_node_state_, exiting_, election_call,
                            is_master, store_node_state, push_calls,
                            store_serving_sth,
                            updater_pc, local_sth, saw_master, dtor_pc,
                            task_state, fatal>>

\* The config callback without the early return of lines 150-153: an
\* event with exists false installs the empty configuration and recomputes.
OnClusterConfigUpdated_NoExistsTest(update) ==
  /\ fatal = 0
  /\ LET entry == IF update.exists THEN update.entry ELSE DefaultConfig
         r == Calculate(all_node_states_, entry, calculated_serving_sth_)
     IN IF r.check_failed # 0
        THEN CheckFailed(r.check_failed)
        ELSE /\ cluster_config_' = entry
             /\ CalculateServingSTH(r)
             /\ UNCHANGED <<all_node_states_, actual_serving_sth_,
                            local_node_state_, exiting_, election_call,
                            is_master, store_node_state, push_calls,
                            store_serving_sth, updater_pc, local_sth,
                            saw_master, dtor_pc, task_state, fatal>>

OnClusterConfigUpdated(update) ==
  /\ fatal = 0
  /\ IF ~update.exists
     THEN UNCHANGED vars
     ELSE LET r == Calculate(all_node_states_, update.entry,
                             calculated_serving_sth_)
          IN IF r.check_failed # 0
             THEN CheckFailed(r.check_failed)
             ELSE /\ cluster_config_' = update.entry
                  /\ CalculateServingSTH(r)
                  /\ UNCHANGED <<all_node_states_, actual_serving_sth_,
                                 local_node_state_, exiting_, election_call,
                                 is_master, store_node_state, push_calls,
                                 store_serving_sth, updater_pc, local_sth,
                                 saw_master, dtor_pc, task_state, fatal>>

\* DetermineElectionParticipation leaving the election also at equal sizes.
DetermineElectionParticipation_StopsWhenEqual(actual, local) ==
  IF actual = NoSTH THEN "stop"
  ELSE IF actual.tree_size >= local.contiguous_tree_size THEN "stop"
  ELSE "start"

\* DetermineElectionParticipation: the call it makes on election_.
DetermineElectionParticipation(actual, local) ==
  IF actual = NoSTH THEN "stop"
  ELSE IF actual.tree_size > local.contiguous_tree_size THEN "stop"
  ELSE "start"

OnServingSthUpdated(update) ==
  /\ fatal = 0
  /\ actual_serving_sth_' = (IF ~update.exists THEN NoSTH ELSE update.entry)
  /\ election_call' =
       DetermineElectionParticipation(actual_serving_sth_', local_node_state_)
  /\ CallsOut
  /\ UNCHANGED <<all_node_states_, cluster_config_, calculated_serving_sth_,
                 local_node_state_, exiting_, update_required_, is_master,
                 store_node_state, push_calls, store_serving_sth,
                 updater_pc, local_sth,
                 saw_master, dtor_pc, task_state, fatal, can_serve_at,
                 ever_calculated>>

\* PushLocalNodeState writing to the store before it re-evaluates the
\* election.
PushLocalNodeState_StoreFirst(state) ==
  /\ local_node_state_' = state
  /\ election_call' = DetermineElectionParticipation(actual_serving_sth_, state)
  /\ store_node_state' = state
  /\ push_calls' = <<"SetClusterNodeState", "DetermineElectionParticipation">>
  /\ CallsOut
  /\ UNCHANGED <<all_node_states_, cluster_config_, actual_serving_sth_,
                 calculated_serving_sth_, exiting_, update_required_,
                 is_master, store_serving_sth, updater_pc, local_sth,
                 saw_master, dtor_pc, task_state, fatal, can_serve_at,
                 ever_calculated>>

\* PushLocalNodeState (lines 115-126) with the node state the caller has
\* just written: the election call of line 120, then the store write of
\* line 122.
PushLocalNodeState(state) ==
  /\ local_node_state_' = state
  /\ election_call' = DetermineElectionParticipation(actual_serving_sth_, state)
  /\ store_node_state' = state
  /\ push_calls' = <<"DetermineElectionParticipation", "SetClusterNodeState">>
  /\ CallsOut
  /\ UNCHANGED <<all_node_states_, cluster_config_, actual_serving_sth_,
                 calculated_serving_sth_, exiting_, update_required_,
                 is_master, store_serving_sth, updater_pc, local_sth,
                 saw_master, dtor_pc, task_state, fatal, can_serve_at,
                 ever_calculated>>

\* NewTreeHead without the CHECK_GE of line 65.
NewTreeHead_Unchecked(sth) ==
  /\ fatal = 0
  /\ PushLocalNodeState([local_node_state_ EXCEPT !.newest_sth = sth])

NewTreeHead(sth) ==
  /\ fatal = 0
  /\ IF /\ local_node_state_.newest_sth # NoSTH
        /\ ~(sth.timestamp >= local_node_state_.newest_sth.timestamp)
     THEN CheckFailed(65)
     ELSE PushLocalNodeState([local_node_state_ EXCEPT !.newest_sth = sth])

\* ContiguousTreeSizeUpdated without the CHECK_GE of line 77.
ContiguousTreeSizeUpdated_NoOrderCheck(new_contiguous_tree_size) ==
  /\ fatal = 0
  /\ IF ~(new_contiguous_tree_size >= 0)
     THEN CheckFailed(75)
     ELSE PushLocalNodeState(
            [local_node_state_ EXCEPT
               !.contiguous_tree_size = new_contiguous_tree_size])

ContiguousTreeSizeUpdated(new_contiguous_tree_size) ==
  /\ fatal = 0
  /\ IF ~(new_contiguous_tree_size >= 0)
     THEN CheckFailed(75)
     ELSE IF ~(new_contiguous_tree_size
                 >= local_node_state_.contiguous_tree_size)
     THEN CheckFailed(77)
     ELSE PushLocalNodeState(
            [local_node_state_ EXCEPT
               !.contiguous_tree_size = new_contiguous_tree_size])

SetNodeHostPort(host, port) ==
  /\ fatal = 0
  /\ PushLocalNodeState(
       [local_node_state_ EXCEPT !.hostname = host, !.log_port = port])

\* ------------------------------------------------------------------------
\* ClusterServingSTHUpdater, the publisher thread.
\* ------------------------------------------------------------------------
\* The publisher testing update_required_ before exiting_ when it wakes.
UpdaterWait_UpdateBeforeExit ==
  /\ fatal = 0
  /\ updater_pc = "wait"
  /\ update_required_ \/ exiting_
  /\ IF update_required_ /\ calculated_serving_sth_ # NoSTH
     THEN /\ local_sth' = calculated_serving_sth_
          /\ update_required_' = FALSE
          /\ updater_pc' = "is_master"
          /\ UNCHANGED fatal
     ELSE IF exiting_
     THEN /\ updater_pc' = "done"
          /\ UNCHANGED <<update_required_, local_sth, fatal>>
     ELSE /\ fatal' = 290
          /\ UNCHANGED <<update_required_, local_sth, updater_pc>>
  /\ UNCHANGED <<all_node_states_, cluster_config_, actual_serving_sth_,
                 calculated_serving_sth_, local_node_state_, exiting_,
                 election_call, is_master, store_node_state, push_calls,
                 store_serving_sth, saw_master, dtor_pc, task_state,
                 can_serve_at, ever_calculated, late_call>>

\* Lines 282-298, under the mutex: the wait, the exit test, the two
\* CHECKs, the stack copy and the reset of update_required_.
UpdaterWait ==
  /\ fatal = 0
  /\ updater_pc = "wait"
  /\ update_required_ \/ exiting_
  /\ IF exiting_
     THEN /\ updater_pc' = "done"
          /\ UNCHANGED <<update_required_, local_sth, fatal>>
     ELSE IF ~update_required_ \/ calculated_serving_sth_ = NoSTH
     THEN /\ fatal' = (IF ~update_required_ THEN 289 ELSE 290)
          /\ UNCHANGED <<update_required_, local_sth, updater_pc>>
     ELSE /\ local_sth' = calculated_serving_sth_
          /\ update_required_' = FALSE
          /\ updater_pc' = "is_master"
          /\ UNCHANGED fatal
  /\ UNCHANGED <<all_node_states_, cluster_config_, actual_serving_sth_,
                 calculated_serving_sth_, local_node_state_, exiting_,
                 election_call, is_master, store_node_state, push_calls,
                 store_serving_sth, saw_master, dtor_pc, task_state,
                 can_serve_at, ever_calculated, late_call>>

\* The publisher going on to the store whatever IsMaster() answers.
UpdaterIsMaster_Unchecked ==
  /\ fatal = 0
  /\ updater_pc = "is_master"
  /\ saw_master' = is_master
  /\ updater_pc' = "set_serving_sth"
  /\ CallsOut
  /\ UNCHANGED <<all_node_states_, cluster_config_, actual_serving_sth_,
                 calculated_serving_sth_, local_node_state_, exiting_,
                 update_required_, election_call, is_master,
                 store_node_state, push_calls, store_serving_sth, local_sth, dtor_pc,
                 task_state, fatal, can_serve_at, ever_calculated>>

\* Line 300, outside the mutex.
UpdaterIsMaster ==
  /\ fatal = 0
  /\ updater_pc = "is_master"
  /\ saw_master' = is_master
  /\ updater_pc' = (IF is_master THEN "set_serving_sth" ELSE "wait")
  /\ CallsOut
  /\ UNCHANGED <<all_node_states_, cluster_config_, actual_serving_sth_,
                 calculated_serving_sth_, local_node_state_, exiting_,
                 update_required_, election_call, is_master,
                 store_node_state, push_calls, store_serving_sth, local_sth, dtor_pc,
                 task_state, fatal, can_serve_at, ever_calculated>>

\* Line 301, outside the mutex.
UpdaterSetServingSTH ==
  /\ fatal = 0
  /\ updater_pc = "set_serving_sth"
  /\ store_serving_sth' = local_sth
  /\ updater_pc' = "wait"
  /\ CallsOut
  /\ UNCHANGED <<all_node_states_, cluster_config_, actual_serving_sth_,
                 calculated_serving_sth_, local_node_state_, exiting_,
                 update_required_, election_call, is_master,
                 store_node_state, push_calls, local_sth, saw_master, dtor_pc,
                 task_state, fatal, can_serve_at, ever_calculated>>

\* ------------------------------------------------------------------------
\* ~ClusterStateController, one step per statement that another thread can
\* observe.  notify_all (line 52) has no state of its own: the publisher's
\* wait is a guard on update_required_ || exiting_.
\* ------------------------------------------------------------------------
dtorOthers ==
  <<all_node_states_, cluster_config_, actual_serving_sth_,
    calculated_serving_sth_, local_node_state_, update_required_,
    election_call, is_master, store_node_state, push_calls, store_serving_sth,
    updater_pc, local_sth, saw_master, fatal, can_serve_at,
    ever_calculated, late_call>>

\* Lines 45-47: the three Cancel() calls, in order.
DtorCancel(w, from, to) ==
  /\ fatal = 0
  /\ dtor_pc = from
  /\ task_state' = [task_state EXCEPT ![w] = IF @ = "done" THEN @ ELSE "cancelled"]
  /\ dtor_pc' = to
  /\ UNCHANGED <<exiting_, dtorOthers>>

\* Lines 48-52.
DtorSetExiting ==
  /\ fatal = 0
  /\ dtor_pc = "set_exiting"
  /\ exiting_' = TRUE
  /\ dtor_pc' = "join"
  /\ UNCHANGED <<task_state, dtorOthers>>

\* The destructor going on without joining the publisher thread.
DtorJoin_NoJoin ==
  /\ fatal = 0
  /\ dtor_pc = "join"
  /\ dtor_pc' = "wait_config"
  /\ UNCHANGED <<exiting_, task_state, dtorOthers>>

\* Line 53: join returns once the publisher thread has returned.
DtorJoin ==
  /\ fatal = 0
  /\ dtor_pc = "join"
  /\ updater_pc = "done"
  /\ dtor_pc' = "wait_config"
  /\ UNCHANGED <<exiting_, task_state, dtorOthers>>

\* Lines 54-56: Wait() returns once the task is done.
DtorWait(w, from, to) ==
  /\ fatal = 0
  /\ dtor_pc = from
  /\ task_state[w] = "done"
  /\ dtor_pc' = to
  /\ UNCHANGED <<exiting_, task_state, dtorOthers>>

Destructor ==
  \/ DtorCancel("config", "alive", "cancel_node_states")
  \/ DtorCancel("node_states", "cancel_node_states", "cancel_serving_sth")
  \/ DtorCancel("serving_sth", "cancel_serving_sth", "set_exiting")
  \/ DtorSetExiting
  \/ DtorJoin
  \/ DtorWait("config", "wait_config", "wait_node_states")
  \/ DtorWait("node_states", "wait_node_states", "wait_serving_sth")
  \/ DtorWait("serving_sth", "wait_serving_sth", "returned")

\* ------------------------------------------------------------------------
\* The collaborators: the store's watch tasks and the election.
\* ------------------------------------------------------------------------
\* A watch runs its callback until its task is done.
WatchDelivers(w) == task_state[w] # "done"

\* A cancelled watch ends: its task completes, no callback is running.
TaskFinishes(w) ==
  /\ task_state[w] = "cancelled"
  /\ task_state' = [task_state EXCEPT ![w] = "done"]
  /\ UNCHANGED <<exiting_, dtor_pc, dtorOthers>>

\* The election grants or revokes mastership whenever it likes.
ElectionChanges ==
  /\ is_master' = ~is_master
  /\ UNCHANGED <<all_node_states_, cluster_config_, actual_serving_sth_,
                 calculated_serving_sth_, local_node_state_, exiting_,
                 update_required_, election_call, store_node_state, push_calls,
                 store_serving_sth, updater_pc, local_sth, saw_master,
                 dtor_pc, task_state, fatal, can_serve_at,
                 ever_calculated, late_call>>

\* ------------------------------------------------------------------------
\* The state after construction (lines 15-40).
\* ------------------------------------------------------------------------
Constructed(states, config, calculated) ==
  /\ all_node_states_ = states
  /\ cluster_config_ = config
  /\ actual_serving_sth_ = NoSTH
  /\ calculated_serving_sth_ = calculated
  /\ local_node_state_ = DefaultNodeState
  /\ exiting_ = FALSE
  /\ update_required_ = FALSE
  /\ election_call = "none"
  /\ is_master = FALSE
  /\ store_node_state = NoNodeState
  /\ push_calls = <<>>
  /\ store_serving_sth = NoSTH
  /\ updater_pc = "wait"
  /\ local_sth = NoSTH
  /\ saw_master = FALSE
  /\ dtor_pc = "alive"
  /\ task_state = [w \in Watches |-> "running"]
  /\ fatal = 0
  /\ can_serve_at = NoSize
  /\ ever_calculated = (calculated # NoSTH)
  /\ late_call = FALSE

Init == Constructed([n \in Nodes |-> Absent], DefaultConfig, NoSTH)

\* ------------------------------------------------------------------------
\* Inputs
\* ------------------------------------------------------------------------
STHs(sizes, timestamps) ==
  {STH(size, ts) : size \in sizes, ts \in timestamps}

PeerEntries(sths) == {PeerState(sth) : sth \in sths \cup {NoSTH}}

ConfigUpdates(configs) ==
  {[exists |-> FALSE]} \cup {[exists |-> TRUE, entry |-> c] : c \in configs}

SthUpdates(sths) ==
  {[exists |-> FALSE]} \cup {[exists |-> TRUE, entry |-> s] : s \in sths}

NodeUpdates(nodes, sths) ==
  {[exists |-> FALSE, node_id |-> n] : n \in nodes}
    \cup {[exists |-> TRUE, node_id |-> n, entry |-> e] :
            n \in nodes, e \in PeerEntries(sths)}

\* The batches of one or two updates.
Batches(updates) == UNION {[1..len -> updates] : len \in {1, 2}}

Configs(maxnodes) ==
  {Config(msn, msf) : msn \in 0..maxnodes, msf \in Fractions}

\* ------------------------------------------------------------------------
\* SpecCalc: one calculation over every input.  The controller rests with
\* any peer map and any earlier calculated STH while the configuration
\* asks for more nodes than exist (every calculation fails and changes
\* nothing); then configurations arrive.
\* ------------------------------------------------------------------------
CalcSTHs == STHs(1..MaxTreeSize, 0..MaxTimestamp)

\* What a calculation can have assigned: a peer's STH with a timestamp
\* above 0, or the default STH.
PrevCalcs ==
  {NoSTH, DefaultSTH} \cup STHs(1..MaxTreeSize, 1..MaxTimestamp)

NoQuorumConfig == Config(NumNodes + 1, [num |-> 0, den |-> 1])

InitCalc ==
  \E states \in [Nodes -> {Absent} \cup PeerEntries(CalcSTHs)] :
    \E calculated \in PrevCalcs :
      Constructed(states, NoQuorumConfig, calculated)

NextCalc ==
  \E update \in ConfigUpdates(Configs(NumNodes + 1)) :
    OnClusterConfigUpdated(update)

SpecCalc == InitCalc /\ [][NextCalc]_vars

\* ------------------------------------------------------------------------
\* SpecWatch: peer-state and config watch events from construction on,
\* with the election changing its mind in between.
\* ------------------------------------------------------------------------
\* The smallest and the largest size, the smallest and the largest
\* timestamp.
WatchSTHs == STHs({1, MaxTreeSize}, {0, MaxTimestamp})

\* No threshold, half of the cluster, every node, more than every node.
WatchConfigs ==
  {DefaultConfig, Config(1, [num |-> 1, den |-> 2]),
   Config(NumNodes, [num |-> 1, den |-> 1]), NoQuorumConfig}

NextWatch ==
  \/ \E updates \in Batches(NodeUpdates(Nodes, WatchSTHs)) :
       OnClusterStateUpdated(updates)
  \/ \E update \in ConfigUpdates(WatchConfigs) :
       OnClusterConfigUpdated(update)
  \/ ElectionChanges

SpecWatch == Init /\ [][NextWatch]_vars

\* ------------------------------------------------------------------------
\* SpecLocal: the local API (record_new_tree_head, record_contiguous_tree_
\* size, set_node_host_port) and the serving-STH watch, which together
\* decide the election participation.  8 and 10 are the sizes of the
\* replication-lag scenario.
\* ------------------------------------------------------------------------
LocalSizes == (0..MaxTreeSize) \cup {8, 10}
LocalSTHs == STHs(LocalSizes, 0..MaxTimestamp)
HostPorts == {<<"log.example.net", 6962>>}

NextLocal ==
  \/ \E sth \in LocalSTHs : NewTreeHead(sth)
  \/ \E size \in {-1} \cup LocalSizes : ContiguousTreeSizeUpdated(size)
  \/ \E hp \in HostPorts : SetNodeHostPort(hp[1], hp[2])
  \/ \E update \in SthUpdates(STHs(LocalSizes, {1})) :
       OnServingSthUpdated(update)

SpecLocal == Init /\ [][NextLocal]_vars

\* ------------------------------------------------------------------------
\* Spec: the controller from construction to the return of its
\* destructor: the three watches while their tasks deliver, the publisher
\* thread, the election and the destructor.
\* ------------------------------------------------------------------------
Next ==
  \/ /\ WatchDelivers("node_states")
     /\ \E update \in NodeUpdates({1}, WatchSTHs) :
          OnClusterStateUpdated(<<update>>)
  \/ /\ WatchDelivers("config")
     /\ \E update \in ConfigUpdates({DefaultConfig, NoQuorumConfig}) :
          OnClusterConfigUpdated(update)
  \/ /\ WatchDelivers("serving_sth")
     /\ \E update \in SthUpdates({STH(1, 1)}) : OnServingSthUpdated(update)
  \/ UpdaterWait
  \/ UpdaterIsMaster
  \/ UpdaterSetServingSTH
  \/ Destructor
  \/ \E w \in Watches : TaskFinishes(w)
  \/ ElectionChanges

Spec == Init /\ [][Next]_vars

\* A step of Spec in which a peer-state or config watch callback ran: the
\* steps that call CalculateServingSTH (lines 142 and 161).
WatchRecomputes ==
  \/ \E update \in NodeUpdates({1}, WatchSTHs) :
       OnClusterStateUpdated(<<update>>)
  \/ \E update \in ConfigUpdates({DefaultConfig, NoQuorumConfig}) :
       update.exists /\ OnClusterConfigUpdated(update)

\* ------------------------------------------------------------------------
\* SpecAll: every thread that enters the controller between construction
\* and the return of the destructor: the three watches, the local API
\* (until the destructor has returned), the publisher thread, the election
\* and the destructor, on one peer STH and one local STH.
\* ------------------------------------------------------------------------
NextAll ==
  \/ /\ WatchDelivers("node_states")
     /\ \E update \in NodeUpdates({1}, {STH(MaxTreeSize, MaxTimestamp)}) :
          OnClusterStateUpdated(<<update>>)
  \/ /\ WatchDelivers("config")
     /\ \E update \in ConfigUpdates({DefaultConfig, NoQuorumConfig}) :
          OnClusterConfigUpdated(update)
  \/ /\ WatchDelivers("serving_sth")
     /\ \E update \in SthUpdates({STH(1, 1)}) : OnServingSthUpdated(update)
  \/ dtor_pc # "returned" /\ NewTreeHead(STH(1, MaxTimestamp))
  \/ dtor_pc # "returned" /\ ContiguousTreeSizeUpdated(1)
  \/ /\ dtor_pc # "returned"
     /\ \E hp \in HostPorts : SetNodeHostPort(hp[1], hp[2])
  \/ UpdaterWait
  \/ UpdaterIsMaster
  \/ UpdaterSetServingSTH
  \/ Destructor
  \/ \E w \in Watches : TaskFinishes(w)
  \/ ElectionChanges

SpecAll == Init /\ [][NextAll]_vars

\* ------------------------------------------------------------------------
\* SpecWide: peer-state and config watch events from construction on, for
\* peers whose trees reach 2^31 leaves and more: 2 blocks, 2^31 leaves,
\* and 2^32 leaves plus one block.
\* ------------------------------------------------------------------------
WideSizes == {2, IntWrap \div 2, IntWrap + 1}
WideSTHs == STHs(WideSizes, {MaxTimestamp})

NextWide ==
  \/ \E update \in NodeUpdates(Nodes, WideSTHs) :
       OnClusterStateUpdated(<<update>>)
  \/ \E update \in ConfigUpdates({DefaultConfig, NoQuorumConfig}) :
       OnClusterConfigUpdated(update)
  \/ ElectionChanges

SpecWide == Init /\ [][NextWide]_vars

\* ------------------------------------------------------------------------
\* SpecLive: a controller that is never destroyed, on a node that wins the
\* election and stays master: peer-state watch events and the publisher
\* thread. The publisher is a thread of its own that the condition
\* variable wakes (lines 238 and 282-285), so each of its steps is taken
\* once it stays enabled; the watch events are the environment's and may
\* stop at any time.
\* ------------------------------------------------------------------------
NextLive ==
  \/ \E update \in NodeUpdates(Nodes, WatchSTHs) :
       OnClusterStateUpdated(<<update>>)
  \/ ~is_master /\ ElectionChanges
  \/ UpdaterWait
  \/ UpdaterIsMaster
  \/ UpdaterSetServingSTH

SpecLive ==
  /\ Init
  /\ [][NextLive]_vars
  /\ WF_vars(UpdaterWait)
  /\ WF_vars(UpdaterIsMaster)
  /\ WF_vars(UpdaterSetServingSTH)

\* ------------------------------------------------------------------------
\* Properties
\* ------------------------------------------------------------------------
HasSTH(states, n) == states[n] # Absent /\ states[n].newest_sth # NoSTH

\* The peers whose newest_sth.tree_size is at least size.
PeersAtLeast(states, size) ==
  {n \in DOMAIN states :
     HasSTH(states, n) /\ states[n].newest_sth.tree_size >= size}

\* Both thresholds of the configuration hold for size.
QuorumAt(states, config, size) ==
  LET count == Cardinality(PeersAtLeast(states, size))
      total == NumStates(states)
  IN /\ count >= config.minimum_serving_nodes
     /\ total > 0
     /\ count * config.minimum_serving_fraction.den
          >= config.minimum_serving_fraction.num * total

\* The peer sizes that are at least floor and have a quorum.
Servable(states, config, floor) ==
  {size \in {states[n].newest_sth.tree_size :
               n \in {m \in DOMAIN states : HasSTH(states, m)}} :
     size >= floor /\ QuorumAt(states, config, size)}

Floor(calculated) == IF calculated # NoSTH THEN calculated.tree_size ELSE 0

\* C1: the tree_size of CalculatedServingSTH never decreases: every value
\* a recomputation assigns is at least as large as the value it replaces.
C1_CalculatedSizeNeverDecreases ==
  [][(calculated_serving_sth_ # NoSTH /\ calculated_serving_sth_' # NoSTH)
       => calculated_serving_sth_'.tree_size
            >= calculated_serving_sth_.tree_size]_vars

\* C2: quorum soundness: when the last recomputation assigned
\* CalculatedServingSTH, the peers at or above its tree_size are at least
\* minimum_serving_nodes and at least minimum_serving_fraction of all
\* peers, in the peer map and configuration it ran on.
C2_QuorumSoundness ==
  can_serve_at # NoSize
    => QuorumAt(all_node_states_, cluster_config_,
                calculated_serving_sth_.tree_size)

\* C2 witness: a calculation went below the largest peer size to find two
\* serving nodes.
C2_Witness ==
  /\ can_serve_at = 1
  /\ cluster_config_.minimum_serving_nodes = 2
  /\ cluster_config_.minimum_serving_fraction = [num |-> 1, den |-> 2]
  /\ PeersAtLeast(all_node_states_, 2) # {}
  /\ calculated_serving_sth_.tree_size = 1

\* C3: election gating: once the election has been called, its last call
\* is start_election exactly when ActualServingSTH is set and its
\* tree_size is at most the local contiguous_tree_size, else
\* stop_election.
C3_ElectionGating ==
  election_call # "none"
    => (election_call = "start"
          <=> (/\ actual_serving_sth_ # NoSTH
               /\ actual_serving_sth_.tree_size
                    <= local_node_state_.contiguous_tree_size))

\* C3 witness: the node caught up to a serving STH of size 10 and joined.
C3_Witness ==
  /\ election_call = "start"
  /\ actual_serving_sth_ # NoSTH
  /\ actual_serving_sth_.tree_size = 10
  /\ local_node_state_.contiguous_tree_size = 10

\* C3 witness of the other side: size 8 locally, serving STH of size 10.
C3_WitnessStop ==
  /\ election_call = "stop"
  /\ actual_serving_sth_ # NoSTH
  /\ actual_serving_sth_.tree_size = 10
  /\ local_node_state_.contiguous_tree_size = 8

\* C4 as claimed: store.set_serving_sth is only invoked while is_master()
\* is true.
C4_SetServingSTHOnlyWhileMaster ==
  [][UpdaterSetServingSTH => is_master]_vars

\* C4 amended: store.set_serving_sth is only invoked after the is_master()
\* call of line 300 returned true in the same iteration.
C4_SetServingSTHOnlyAfterMasterCheck ==
  [][UpdaterSetServingSTH => saw_master]_vars

\* C4 witness: the publisher has written while mastership is already gone.
C4_Witness ==
  /\ store_serving_sth # NoSTH
  /\ saw_master
  /\ ~is_master

\* C5: shutdown: no call to the store or the election is made after the
\* destructor has returned, and by then the publisher thread has returned
\* and the three watch tasks are done.
C5_Shutdown ==
  /\ ~late_call
  /\ dtor_pc = "returned"
       => /\ updater_pc = "done"
          /\ \A w \in Watches : task_state[w] = "done"

\* C5 witness: destruction returned after the publisher had published and
\* the serving-STH callback had called the election.
C5_Witness ==
  /\ dtor_pc = "returned"
  /\ store_serving_sth # NoSTH
  /\ election_call # "none"

\* C6: record_new_tree_head with a timestamp below the recorded one aborts
\* without recording or publishing, any other is recorded and published;
\* the recorded timestamp never decreases.
C6_LocalTimestampMonotonic ==
  [][/\ \A sth \in LocalSTHs :
          NewTreeHead(sth) =>
            IF /\ local_node_state_.newest_sth # NoSTH
               /\ sth.timestamp < local_node_state_.newest_sth.timestamp
            THEN /\ fatal' = 65
                 /\ UNCHANGED <<local_node_state_, store_node_state>>
            ELSE /\ fatal' = 0
                 /\ local_node_state_'.newest_sth = sth
                 /\ store_node_state' = local_node_state_'
     /\ local_node_state_.newest_sth # NoSTH
          => /\ local_node_state_'.newest_sth # NoSTH
             /\ local_node_state_'.newest_sth.timestamp
                  >= local_node_state_.newest_sth.timestamp]_vars

\* C6 witness: a tree head older than the recorded one was refused.
C6_Witness ==
  /\ fatal = 65
  /\ local_node_state_.newest_sth # NoSTH
  /\ local_node_state_.newest_sth.timestamp = MaxTimestamp
  /\ store_node_state = local_node_state_

\* C7: record_contiguous_tree_size with a negative size or one below the
\* recorded size aborts without recording or publishing, any other is
\* recorded and published; the recorded size never decreases and is never
\* negative.
C7_ContiguousSizeMonotonic ==
  [][/\ \A size \in {-1} \cup LocalSizes :
          ContiguousTreeSizeUpdated(size) =>
            IF size < 0 \/ size < local_node_state_.contiguous_tree_size
            THEN /\ fatal' \in {75, 77}
                 /\ UNCHANGED <<local_node_state_, store_node_state>>
            ELSE /\ fatal' = 0
                 /\ local_node_state_'.contiguous_tree_size = size
                 /\ store_node_state' = local_node_state_'
     /\ local_node_state_'.contiguous_tree_size
          >= local_node_state_.contiguous_tree_size
     /\ local_node_state_'.contiguous_tree_size >= 0]_vars

\* C7 witness: a size below the recorded size 10 was refused.
C7_Witness ==
  /\ fatal = 77
  /\ local_node_state_.contiguous_tree_size = 10
  /\ store_node_state = local_node_state_

\* GetCalculatedServingSTH, lines 84-92.
GetCalculatedServingSTH ==
  IF calculated_serving_sth_ = NoSTH
  THEN [status |-> "NOT_FOUND"]
  ELSE [status |-> "OK", value |-> calculated_serving_sth_]

\* C8: get_calculated_serving_sth answers NotFound exactly when no
\* recomputation has ever assigned CalculatedServingSTH, and otherwise the
\* current value.
C8_NotFoundIffNeverCalculated ==
  /\ GetCalculatedServingSTH.status = "NOT_FOUND" <=> ~ever_calculated
  /\ GetCalculatedServingSTH.status = "OK"
       => GetCalculatedServingSTH.value = calculated_serving_sth_

\* C8 witness: an STH was calculated, then the peer left, the quorum was
\* lost and the serving STH is absent; the getter still answers.
C8_Witness ==
  /\ ever_calculated
  /\ GetCalculatedServingSTH.status = "OK"
  /\ can_serve_at = NoSize
  /\ \A n \in Nodes : all_node_states_[n] = Absent
  /\ cluster_config_ = NoQuorumConfig
  /\ election_call = "stop"

\* C9: a recomputation selects the largest peer tree size that is at
\* least the floor and has a quorum: that is the tree_size of
\* CalculatedServingSTH afterwards, and nothing is selected when there is
\* none.
C9_SelectsLargestServable ==
  [][(is_master' = is_master /\ fatal' = 0) =>
       LET servable == Servable(all_node_states_', cluster_config_',
                                Floor(calculated_serving_sth_))
       IN IF servable = {}
          THEN /\ can_serve_at' = NoSize
               /\ calculated_serving_sth_' = calculated_serving_sth_
          ELSE /\ can_serve_at' = SetMax(servable)
               /\ calculated_serving_sth_'.tree_size = SetMax(servable)]_vars

\* C10: when the last recomputation found a qualifying size, the value of
\* CalculatedServingSTH is the newest_sth of a peer at that size, with the
\* largest timestamp among the peers at that size.
C10_AssignsNewestAtSize ==
  can_serve_at # NoSize =>
    /\ calculated_serving_sth_.tree_size = can_serve_at
    /\ \E n \in Nodes :
         /\ HasSTH(all_node_states_, n)
         /\ all_node_states_[n].newest_sth = calculated_serving_sth_
    /\ \A n \in Nodes :
         (/\ HasSTH(all_node_states_, n)
          /\ all_node_states_[n].newest_sth.tree_size = can_serve_at)
           => all_node_states_[n].newest_sth.timestamp
                <= calculated_serving_sth_.timestamp

\* C11: a recomputation over peers none of whose sizes is at least the
\* floor with a quorum (an empty peer map included) leaves
\* CalculatedServingSTH and update_pending as they were, master or not.
C11_NoQuorumChangesNothing ==
  [][(/\ is_master' = is_master
      /\ fatal' = 0
      /\ Servable(all_node_states_', cluster_config_',
                  Floor(calculated_serving_sth_)) = {})
       => UNCHANGED <<calculated_serving_sth_, update_required_>>]_vars

\* C17: the floor of the sweep is the tree_size of CalculatedServingSTH
\* (0 when unset) whatever its size, and no recomputation aborts on a
\* calculated size that is not negative.
C17_FloorIsCalculatedSize ==
  /\ CurrentTreeSize(calculated_serving_sth_)
       = Floor(calculated_serving_sth_)
  /\ fatal # 215

\* C12: on a master whose CalculatedServingSTH has been published, a
\* recomputation over unchanged PeerStates and ClusterConfig that yields
\* the identical CalculatedServingSTH does not set update_pending.
C12_IdenticalRecalculationDoesNotSignal ==
  [][(/\ fatal' = 0
      /\ is_master
      /\ updater_pc = "wait"
      /\ ~update_required_
      /\ store_serving_sth = calculated_serving_sth_
      /\ UNCHANGED <<all_node_states_, cluster_config_,
                     calculated_serving_sth_>>
      /\ WatchRecomputes)
       => ~update_required_']_vars

\* C12 (amended): on a master every recomputation that finds a qualifying
\* size sets update_pending, the identical recalculation included.
C12_QualifyingRecalculationSignals ==
  [][(fatal' = 0 /\ is_master /\ can_serve_at' # NoSize /\ WatchRecomputes)
       => update_required_']_vars

\* The published STH is again pending on a master whose publisher sleeps.
C12_Witness ==
  /\ fatal = 0
  /\ is_master
  /\ updater_pc = "wait"
  /\ update_required_
  /\ calculated_serving_sth_ # NoSTH
  /\ store_serving_sth = calculated_serving_sth_

\* C13: a publisher that wakes from its wait while exiting is true returns
\* without a store write, a pending update or not: it takes no snapshot,
\* leaves update_pending as it is, and never reaches set_serving_sth again.
C13_ExitingTakesPriority ==
  /\ [][(updater_pc = "wait" /\ exiting_ /\ updater_pc' # "wait")
         => /\ updater_pc' = "done"
            /\ UNCHANGED <<store_serving_sth, local_sth, update_required_>>]_vars
  /\ [][updater_pc = "done"
         => (updater_pc' = "done" /\ UNCHANGED store_serving_sth)]_vars

\* The publisher has returned with an update still pending.
C13_Witness ==
  /\ updater_pc = "done"
  /\ exiting_
  /\ update_required_
  /\ calculated_serving_sth_ # NoSTH
  /\ fatal = 0

\* C14: a config watch event with exists false changes nothing at all; one
\* with exists true replaces ClusterConfig by its entry and recomputes
\* under the new configuration: the size found is the largest peer size
\* at or above the floor with a quorum under the entry, none if there is
\* none, and nothing but the configuration and the outcome of the
\* recomputation changes.
C14_ConfigEvent ==
  [][\A update \in ConfigUpdates(WatchConfigs) :
       (fatal' = 0 /\ OnClusterConfigUpdated(update)) =>
         IF update.exists
         THEN LET servable == Servable(all_node_states_, update.entry,
                                       Floor(calculated_serving_sth_))
              IN /\ cluster_config_' = update.entry
                 /\ can_serve_at' = IF servable = {} THEN NoSize
                                    ELSE SetMax(servable)
                 /\ UNCHANGED <<all_node_states_, election_call, is_master>>
         ELSE UNCHANGED vars]_vars

\* A config event replaced a configuration under which a size had been
\* calculated by one under which the recomputation finds none.
C14_Witness ==
  /\ cluster_config_ = NoQuorumConfig
  /\ can_serve_at = NoSize
  /\ calculated_serving_sth_ # NoSTH
  /\ fatal = 0

\* C15: the store is written on every local mutation, in the order the
\* mutations take effect: before the first one nothing has been written,
\* and after each one the value last passed to set_cluster_node_state is
\* the in-memory LocalNodeState; each publish re-evaluates the election
\* and then writes to the store.
C15_PublicationOrder ==
  IF store_node_state = NoNodeState
  THEN local_node_state_ = DefaultNodeState /\ push_calls = <<>>
  ELSE /\ store_node_state = local_node_state_
       /\ push_calls
            = <<"DetermineElectionParticipation", "SetClusterNodeState">>

\* The three mutators have each taken effect and the store holds the
\* outcome.
C15_Witness ==
  /\ store_node_state = local_node_state_
  /\ local_node_state_.newest_sth # NoSTH
  /\ local_node_state_.contiguous_tree_size > 0
  /\ local_node_state_.hostname # ""
  /\ fatal = 0

\* C16: on a node that stays master and is not destroyed, once a
\* recomputation has assigned a CalculatedServingSTH of tree_size s and
\* set update_pending, the publisher eventually invokes set_serving_sth
\* with a snapshot of tree_size at least s (unless the process aborts).
C16_PublicationLiveness ==
  \A s \in 1..MaxTreeSize :
    (/\ fatal = 0
     /\ is_master
     /\ update_required_
     /\ calculated_serving_sth_ # NoSTH
     /\ calculated_serving_sth_.tree_size = s)
      ~> (\/ fatal # 0
          \/ /\ store_serving_sth # NoSTH
             /\ store_serving_sth.tree_size >= s)

\* C18: whenever update_pending is true CalculatedServingSTH is set, and
\* neither assertion of the publisher (lines 289 and 290) ever fails,
\* with watch callbacks, local mutators, the destructor and the publisher
\* interleaved.
C18_UpdateRequiredImpliesCalculated ==
  /\ update_required_ => calculated_serving_sth_ # NoSTH
  /\ fatal \notin {289, 290}

\* The publisher has passed its assertions and been signalled again while
\* it is on its way to the store, after a local mutation.
C18_Witness ==
  /\ updater_pc = "is_master"
  /\ update_required_
  /\ local_sth # NoSTH
  /\ store_node_state # NoNodeState
  /\ fatal = 0

\* C19: the STHs passed to set_serving_sth have non-decreasing tree_size:
\* no invocation carries a tree_size smaller than the invocation before it.
C19_PublishedSizeNeverDecreases ==
  [][(/\ updater_pc = "set_serving_sth"
      /\ updater_pc' = "wait"
      /\ store_serving_sth # NoSTH)
       => store_serving_sth'.tree_size >= store_serving_sth.tree_size]_vars

\* C20: update_pending is set only by a peer-state or config watch event
\* whose recomputation finds a qualifying size while this node is master;
\* winning the election, serving-STH watch events and local mutators do
\* not set it, so a CalculatedServingSTH assigned while not master stays
\* unpublished until such an event.
C20_OnlyMasterRecomputationSignals ==
  [][(~update_required_ /\ update_required_')
       => (is_master /\ can_serve_at' # NoSize /\ WatchRecomputes)]_vars

\* A node that has become master holds a CalculatedServingSTH that was
\* never signalled, snapshotted or written to the store.
C20_Witness ==
  /\ is_master
  /\ calculated_serving_sth_ # NoSTH
  /\ ~update_required_
  /\ updater_pc = "wait"
  /\ local_sth = NoSTH
  /\ store_serving_sth = NoSTH
  /\ fatal = 0

====
